---- MODULE Spec2Model ----
(***************************************************************************)
(* Calibration engine of precision-desktop: calibration.py (store,         *)
(* estimator, verification, converter) and health_check.check_calibration  *)
(* (status evaluator).                                                     *)
(*                                                                         *)
(* Numbers.  Python floats are modelled as exact rationals <<n, d>> with   *)
(* d > 0 and gcd(n, d) = 1; round(x, k) and round(x) are round-half-even   *)
(* on the exact value (the binary rounding error of a float, which can     *)
(* move a value off an exact tie, is not modelled).  None is the empty     *)
(* tuple; a timestamp is <<t>>, t in minutes since the start of the run.   *)
(* A dict is a record whose DOMAIN is the dict's key set; the JSON file    *)
(* holds the dict that was saved (bool, int, float, str, None, list and    *)
(* dict values are read back as written).                                  *)
(***************************************************************************)
EXTENDS Integers, Sequences, FiniteSets, TLC

VARIABLES file, now, last, estimated, calls, seen

vars == <<file, now, last, estimated, calls, seen>>

(***************************************************************************)
(* Bounds of the model                                                     *)
(***************************************************************************)
MaxPoints == 2
MaxWeeks == 2
MaxFitPoints == 3
MaxMinutes == 1

(***************************************************************************)
(* Program constants                                                       *)
(***************************************************************************)
MIN_POINTS == 2
SCALE_DIGITS == 6
SPREAD_DIGITS == 4
STALE_DAYS == 7
TOLERANCE == <<1, 50>>

MinutesPerDay == 24 * 60
Week == STALE_DAYS * MinutesPerDay

None == <<>>

(***************************************************************************)
(* Exact rational arithmetic standing for Python float arithmetic          *)
(***************************************************************************)
Abs(n) == IF n < 0 THEN -n ELSE n

RECURSIVE GCD(_, _)
GCD(a, b) == IF b = 0 THEN a ELSE GCD(b, a % b)

Rat(n, d) ==
    LET g == GCD(Abs(n), Abs(d))
        s == IF d < 0 THEN -1 ELSE 1
    IN  <<s * (n \div g), s * (d \div g)>>

RInt(n) == <<n, 1>>

RAdd(a, b) ==
    LET g == GCD(a[2], b[2])
    IN  Rat(a[1] * (b[2] \div g) + b[1] * (a[2] \div g), (a[2] \div g) * b[2])

RNeg(a) == <<-a[1], a[2]>>

RSub(a, b) == RAdd(a, RNeg(b))

RMul(a, b) ==
    LET x == Rat(a[1], b[2])
        y == Rat(b[1], a[2])
    IN  <<x[1] * y[1], x[2] * y[2]>>

RInv(a) == Rat(a[2], a[1])

RDiv(a, b) == RMul(a, RInv(b))

RLt(a, b) == a[1] * b[2] < b[1] * a[2]

RLe(a, b) == a[1] * b[2] <= b[1] * a[2]

RIsZero(a) == a[1] = 0

RECURSIVE Pow10(_)
Pow10(k) == IF k = 0 THEN 1 ELSE 10 * Pow10(k - 1)

\* round(x): nearest integer, ties to the even one
round(a) ==
    LET q == a[1] \div a[2]
        r == a[1] % a[2]
    IN  IF 2 * r < a[2] THEN q
        ELSE IF 2 * r > a[2] THEN q + 1
        ELSE IF q % 2 = 0 THEN q ELSE q + 1

\* round(x, ndigits)
round_to(a, ndigits) ==
    Rat(round(RMul(a, RInt(Pow10(ndigits)))), Pow10(ndigits))

(***************************************************************************)
(* statistics.median, max, min over a non-empty list of numbers            *)
(***************************************************************************)
RECURSIVE Insert(_, _)
Insert(x, s) ==
    IF s = <<>> THEN <<x>>
    ELSE IF RLe(x, Head(s)) THEN <<x>> \o s
    ELSE <<Head(s)>> \o Insert(x, Tail(s))

RECURSIVE sorted(_)
sorted(s) == IF s = <<>> THEN <<>> ELSE Insert(Head(s), sorted(Tail(s)))

\* mutant: statistics.median_low, the lower of the two middle values
median_low(data) ==
    LET d == sorted(data)
        n == Len(d)
    IN  d[(n + 1) \div 2]

\* mutant: the mean of the smallest and the largest value
median_midrange(data) ==
    LET d == sorted(data)
    IN  RDiv(RAdd(d[1], d[Len(d)]), RInt(2))

median(data) ==
    LET d == sorted(data)
        n == Len(d)
        i == n \div 2
    IN  IF n % 2 = 1 THEN d[i + 1]
        ELSE RDiv(RAdd(d[i], d[i + 1]), RInt(2))

max(data) == sorted(data)[Len(data)]

min(data) == sorted(data)[1]

(***************************************************************************)
(* CalibrationStore                                                        *)
(***************************************************************************)
\* STATE_FILE does not exist
NoFile == [exists |-> FALSE]

DefaultState ==
    [calibrated |-> FALSE, scale_x |-> None, scale_y |-> None,
     offset_x |-> 0, offset_y |-> 0, points |-> <<>>,
     calibrated_at |-> None, verified |-> FALSE]

load_state(f) == IF f # NoFile THEN f ELSE DefaultState

save_state(state) == state

\* Path.write_text as other processes see it: open(mode 'w') leaves the file
\* empty, and the text is written when the buffer is flushed on close; text
\* written over what another process has written since the file was opened
\* replaces it only if it is at least as long, and otherwise leaves the tail
\* of the other text behind it
JSONDecodeError == "json.JSONDecodeError"

Truncated == [exists |-> TRUE, text |-> ""]

Garbled == [exists |-> TRUE, text |-> "one text followed by the tail of another"]

open_text(f) == Truncated

write_text(f, state) == IF f = Truncated THEN {state} ELSE {state, Garbled}

\* load_state on a file another process may be writing: the exception raised
\* ("" when none) and the state returned
read_state(f) ==
    IF f \in {Truncated, Garbled}
    THEN [raised |-> JSONDecodeError, state |-> None]
    ELSE [raised |-> "", state |-> load_state(f)]

\* dict.get(key) and dict.get(key, default)
Get(state, key) == IF key \in DOMAIN state THEN state[key] ELSE None

GetD(state, key, default) == IF key \in DOMAIN state THEN state[key] ELSE default

(***************************************************************************)
(* Inputs of the callers                                                   *)
(***************************************************************************)
Point(px, py, lx, ly) ==
    [physical_x |-> px, physical_y |-> py, logical_x |-> lx, logical_y |-> ly]

PointPool ==
    { Point(125, 125, 100, 100),
      Point(125, 125, 0, 100),
      Point(0, 126, 100, 100) }

PointLists == UNION { [1..n -> PointPool] : n \in 0..MaxPoints }

\* landmark measurements at display scalings 1.0, 2.0, 1.0 by 1.03, 0.25,
\* 0.99 and 1.01, and one at scaling 2.0 farther from the origin
FitPool ==
    { Point(100, 100, 100, 100),
      Point(200, 200, 100, 100),
      Point(100, 103, 100, 100),
      Point(25, 25, 100, 100),
      Point(99, 99, 100, 100),
      Point(101, 101, 100, 100),
      Point(400, 400, 200, 200) }

FitLists == UNION { [1..n -> FitPool] : n \in MIN_POINTS..MaxFitPoints }

Coords == {2, 100}

Notes == {"", "cursor landed on the minimize button"}

(***************************************************************************)
(* Estimator                                                               *)
(***************************************************************************)
InsufficientSamples == "ValueError: Need at least 2 calibration points"
DegenerateInput == "ValueError: Cannot compute scale - logical coordinates contain zeros"

NonZeroX(p) == p.logical_x # 0
NonZeroY(p) == p.logical_y # 0

scales_x(points) ==
    LET ps == SelectSeq(points, NonZeroX)
    IN  [i \in 1..Len(ps) |-> Rat(ps[i].physical_x, ps[i].logical_x)]

\* mutant: a point with a zero logical coordinate on either axis is skipped whole
scales_y_skip(points) ==
    LET ps == SelectSeq(SelectSeq(points, NonZeroX), NonZeroY)
    IN  [i \in 1..Len(ps) |-> Rat(ps[i].physical_y, ps[i].logical_y)]

scales_y(points) ==
    LET ps == SelectSeq(points, NonZeroY)
    IN  [i \in 1..Len(ps) |-> Rat(ps[i].physical_y, ps[i].logical_y)]

offsets_x(points, scale_x) ==
    LET ps == SelectSeq(points, NonZeroX)
    IN  [i \in 1..Len(ps) |->
            RSub(RInt(ps[i].physical_x), RMul(RInt(ps[i].logical_x), scale_x))]

offsets_y(points, scale_y) ==
    LET ps == SelectSeq(points, NonZeroY)
    IN  [i \in 1..Len(ps) |->
            RSub(RInt(ps[i].physical_y), RMul(RInt(ps[i].logical_y), scale_y))]

spread(scales, scale) ==
    IF ~RIsZero(scale) THEN RDiv(RSub(max(scales), min(scales)), scale)
    ELSE RInt(0)

\* mutant: one axis within the tolerance is enough to be consistent
fit_either(points) ==
    LET scale_x == median(scales_x(points))
        scale_y == median(scales_y(points))
        spread_x == spread(scales_x(points), scale_x)
        spread_y == spread(scales_y(points), scale_y)
        consistent == RLt(spread_x, TOLERANCE) \/ RLt(spread_y, TOLERANCE)
        offs_x == offsets_x(points, scale_x)
        offs_y == offsets_y(points, scale_y)
        offset_x == IF offs_x # <<>> THEN round(median(offs_x)) ELSE 0
        offset_y == IF offs_y # <<>> THEN round(median(offs_y)) ELSE 0
    IN  [calibrated |-> TRUE,
         scale_x |-> round_to(scale_x, SCALE_DIGITS),
         scale_y |-> round_to(scale_y, SCALE_DIGITS),
         offset_x |-> offset_x,
         offset_y |-> offset_y,
         points |-> points,
         verified |-> FALSE,
         consistent |-> consistent,
         spread_x |-> round_to(spread_x, SPREAD_DIGITS),
         spread_y |-> round_to(spread_y, SPREAD_DIGITS)]

\* lines 85-112 without the clock: the fields of the new state that do not
\* depend on the time of the call
fit(points) ==
    LET scale_x == median(scales_x(points))
        scale_y == median(scales_y(points))
        spread_x == spread(scales_x(points), scale_x)
        spread_y == spread(scales_y(points), scale_y)
        consistent == RLt(spread_x, TOLERANCE) /\ RLt(spread_y, TOLERANCE)
        offs_x == offsets_x(points, scale_x)
        offs_y == offsets_y(points, scale_y)
        offset_x == IF offs_x # <<>> THEN round(median(offs_x)) ELSE 0
        offset_y == IF offs_y # <<>> THEN round(median(offs_y)) ELSE 0
    IN  [calibrated |-> TRUE,
         scale_x |-> round_to(scale_x, SCALE_DIGITS),
         scale_y |-> round_to(scale_y, SCALE_DIGITS),
         offset_x |-> offset_x,
         offset_y |-> offset_y,
         points |-> points,
         verified |-> FALSE,
         consistent |-> consistent,
         spread_x |-> round_to(spread_x, SPREAD_DIGITS),
         spread_y |-> round_to(spread_y, SPREAD_DIGITS)]

\* mutant: a single point is accepted
estimate_min1(points) ==
    IF Len(points) < 1
    THEN [raised |-> InsufficientSamples, model |-> None]
    ELSE IF scales_x(points) = <<>> \/ scales_y(points) = <<>>
    THEN [raised |-> DegenerateInput, model |-> None]
    ELSE [raised |-> "", model |-> fit(points)]

\* lines 70-112 without the clock: the exception raised ("" when none) and
\* the new state
estimate(points) ==
    IF Len(points) < MIN_POINTS
    THEN [raised |-> InsufficientSamples, model |-> None]
    ELSE IF scales_x(points) = <<>> \/ scales_y(points) = <<>>
    THEN [raised |-> DegenerateInput, model |-> None]
    ELSE [raised |-> "", model |-> fit(points)]

\* estimate evaluated once for every point list a caller can send
Estimates == { <<points, estimate(points)>> : points \in PointLists }

\* estimate(points), read from Estimates where it is tabulated
estimate_of(points) ==
    IF points \in PointLists
    THEN (CHOOSE pe \in Estimates : pe[1] = points)[2]
    ELSE estimate(points)

\* mutant: the new state is stored as already verified
compute_calibration_verified(points, t) ==
    LET e == estimate_of(points)
    IN  IF e.raised # ""
        THEN [raised |-> e.raised, state |-> None]
        ELSE [raised |-> "",
              state |-> [calibrated_at |-> <<t>>, verified |-> TRUE] @@ e.model]

\* mutant: the new state carries no time of calibration
compute_calibration_undated(points, t) ==
    LET e == estimate_of(points)
    IN  IF e.raised # ""
        THEN [raised |-> e.raised, state |-> None]
        ELSE [raised |-> "", state |-> [calibrated_at |-> None] @@ e.model]

\* result: the exception raised ("" when none) and the state saved and returned
compute_calibration(points, t) ==
    LET e == estimate_of(points)
    IN  IF e.raised # ""
        THEN [raised |-> e.raised, state |-> None]
        ELSE [raised |-> "", state |-> [calibrated_at |-> <<t>>] @@ e.model]

(***************************************************************************)
(* Verification                                                            *)
(***************************************************************************)
\* mutant: a verification also refreshes calibrated_at
mark_verified_touch(f, success, notes, t) ==
    [verified |-> success, verification_notes |-> notes, verified_at |-> <<t>>,
     calibrated_at |-> <<t>>]
        @@ load_state(f)

\* mutant: any verification attempt counts as verified
mark_verified_always(f, success, notes, t) ==
    [verified |-> TRUE, verification_notes |-> notes, verified_at |-> <<t>>]
        @@ load_state(f)

\* mutant: the verification drops the calibration points
mark_verified_no_points(f, success, notes, t) ==
    [verified |-> success, verification_notes |-> notes, verified_at |-> <<t>>,
     points |-> <<>>]
        @@ load_state(f)

\* mutant: the verification starts from the empty default, not from the loaded state
mark_verified_fresh(f, success, notes, t) ==
    [verified |-> success, verification_notes |-> notes, verified_at |-> <<t>>]
        @@ DefaultState

mark_verified(f, success, notes, t) ==
    [verified |-> success, verification_notes |-> notes, verified_at |-> <<t>>]
        @@ load_state(f)

(***************************************************************************)
(* Converter                                                               *)
(***************************************************************************)
NotCalibrated == "RuntimeError: Not calibrated - run the 'calibrate' tool first"
TypeError == "TypeError"
ZeroDivisionError == "ZeroDivisionError"

\* mutant: the offset is not subtracted
physical_to_logical_no_offset(f, phys_x, phys_y) ==
    LET state == load_state(f)
    IN  IF ~state.calibrated
        THEN [raised |-> NotCalibrated, value |-> None]
        ELSE IF state.scale_x = None \/ state.scale_y = None
        THEN [raised |-> TypeError, value |-> None]
        ELSE IF RIsZero(state.scale_x) \/ RIsZero(state.scale_y)
        THEN [raised |-> ZeroDivisionError, value |-> None]
        ELSE [raised |-> "",
              value |-> <<round(RDiv(RInt(phys_x), state.scale_x)),
                          round(RDiv(RInt(phys_y), state.scale_y))>>]

physical_to_logical(f, phys_x, phys_y) ==
    LET state == load_state(f)
    IN  IF ~state.calibrated
        THEN [raised |-> NotCalibrated, value |-> None]
        ELSE IF state.scale_x = None \/ state.scale_y = None
        THEN [raised |-> TypeError, value |-> None]
        ELSE IF RIsZero(state.scale_x) \/ RIsZero(state.scale_y)
        THEN [raised |-> ZeroDivisionError, value |-> None]
        ELSE [raised |-> "",
              value |-> <<round(RDiv(RInt(phys_x - state.offset_x), state.scale_x)),
                          round(RDiv(RInt(phys_y - state.offset_y), state.scale_y))>>]

\* mutant: the calibrated check is missing
logical_to_physical_unguarded(f, log_x, log_y) ==
    LET state == load_state(f)
    IN  IF state.scale_x = None \/ state.scale_y = None
        THEN [raised |-> TypeError, value |-> None]
        ELSE [raised |-> "",
              value |-> <<round(RAdd(RMul(RInt(log_x), state.scale_x), RInt(state.offset_x))),
                          round(RAdd(RMul(RInt(log_y), state.scale_y), RInt(state.offset_y)))>>]

logical_to_physical(f, log_x, log_y) ==
    LET state == load_state(f)
    IN  IF ~state.calibrated
        THEN [raised |-> NotCalibrated, value |-> None]
        ELSE IF state.scale_x = None \/ state.scale_y = None
        THEN [raised |-> TypeError, value |-> None]
        ELSE [raised |-> "",
              value |-> <<round(RAdd(RMul(RInt(log_x), state.scale_x), RInt(state.offset_x))),
                          round(RAdd(RMul(RInt(log_y), state.scale_y), RInt(state.offset_y)))>>]

(***************************************************************************)
(* StatusEvaluator                                                         *)
(***************************************************************************)
UnboundLocalError == "UnboundLocalError"

StatusMissing ==
    [status |-> "missing",
     message |-> [text |-> "No calibration data. Run 'calibrate' tool.",
                  args |-> <<>>],
     action_needed |-> TRUE]

\* age is unbound when calibrated_at is missing
StatusStale(state, cal_time, age) ==
    IF cal_time = None THEN [status |-> UnboundLocalError]
    ELSE [status |-> "stale",
          message |-> [text |-> "Calibration is {} days old. Consider re-calibrating.",
                       args |-> <<RInt(age \div MinutesPerDay)>>],
          scale_x |-> Get(state, "scale_x"),
          scale_y |-> Get(state, "scale_y"),
          action_needed |-> TRUE]

StatusUnverified(state) ==
    [status |-> "unverified",
     message |-> [text |-> "Calibration computed but not verified. Run verification step.",
                  args |-> <<>>],
     scale_x |-> Get(state, "scale_x"),
     scale_y |-> Get(state, "scale_y"),
     action_needed |-> TRUE]

\* mutant: an inconsistent calibration asks for no action
StatusInconsistent_quiet(state) ==
    [status |-> "inconsistent",
     message |-> [text |-> "Calibration points disagree (spread: x={}, y={}). Re-calibrate with better points.",
                  args |-> <<Get(state, "spread_x"), Get(state, "spread_y")>>],
     scale_x |-> Get(state, "scale_x"),
     scale_y |-> Get(state, "scale_y"),
     action_needed |-> FALSE]

StatusInconsistent(state) ==
    [status |-> "inconsistent",
     message |-> [text |-> "Calibration points disagree (spread: x={}, y={}). Re-calibrate with better points.",
                  args |-> <<Get(state, "spread_x"), Get(state, "spread_y")>>],
     scale_x |-> Get(state, "scale_x"),
     scale_y |-> Get(state, "scale_y"),
     action_needed |-> TRUE]

StatusOk(state) ==
    [status |-> "ok",
     message |-> [text |-> "Calibration valid. Scale: {}x / {}y",
                  args |-> <<state.scale_x, state.scale_y>>],
     scale_x |-> state.scale_x,
     scale_y |-> state.scale_y,
     action_needed |-> FALSE]

\* mutant: verification is looked at before staleness
check_calibration_verified_first(f, t) ==
    LET state == load_state(f)
        cal_time == Get(state, "calibrated_at")
        age == t - cal_time[1]
        stale == IF cal_time # None THEN age > Week ELSE TRUE
        verified == GetD(state, "verified", FALSE)
        consistent == GetD(state, "consistent", TRUE)
    IN  IF ~Get(state, "calibrated") THEN StatusMissing
        ELSE IF ~verified THEN StatusUnverified(state)
        ELSE IF stale THEN StatusStale(state, cal_time, age)
        ELSE IF ~consistent THEN StatusInconsistent(state)
        ELSE StatusOk(state)

\* mutant: the threshold is 7 seconds
check_calibration_seconds(f, t) ==
    LET state == load_state(f)
        cal_time == Get(state, "calibrated_at")
        age == t - cal_time[1]
        stale == IF cal_time # None THEN age * 60 > STALE_DAYS ELSE TRUE
        verified == GetD(state, "verified", FALSE)
        consistent == GetD(state, "consistent", TRUE)
    IN  IF ~Get(state, "calibrated") THEN StatusMissing
        ELSE IF stale THEN StatusStale(state, cal_time, age)
        ELSE IF ~verified THEN StatusUnverified(state)
        ELSE IF ~consistent THEN StatusInconsistent(state)
        ELSE StatusOk(state)

check_calibration(f, t) ==
    LET state == load_state(f)
        cal_time == Get(state, "calibrated_at")
        age == t - cal_time[1]
        stale == IF cal_time # None THEN age > Week ELSE TRUE
        verified == GetD(state, "verified", FALSE)
        consistent == GetD(state, "consistent", TRUE)
    IN  IF ~Get(state, "calibrated") THEN StatusMissing
        ELSE IF stale THEN StatusStale(state, cal_time, age)
        ELSE IF ~verified THEN StatusUnverified(state)
        ELSE IF ~consistent THEN StatusInconsistent(state)
        ELSE StatusOk(state)

(***************************************************************************)
(* State machine: one action per operation of the engine.  last records    *)
(* the operation just performed, its arguments, its outcome and the        *)
(* verified flag a load would have returned before it; estimated records   *)
(* whether compute_calibration has ever returned normally.  calls holds    *)
(* the calls that are in flight when several server processes share the    *)
(* state file (none when one process runs its tools one after the other):  *)
(* where each is, the state it has loaded, the state it is about to write  *)
(* and the state another call has written between its load and its save;   *)
(* seen records the result of the latest status evaluation since the last  *)
(* estimate or verify, its time and the time of the one before it.         *)
(***************************************************************************)
Idle == [pc |-> "idle", state |-> None, loaded |-> None, between |-> None]

NoCalls == [estimate |-> Idle, verify |-> Idle]

Init ==
    /\ file = NoFile
    /\ now = 0
    /\ last = [op |-> "init", args |-> <<>>, raised |-> "", out |-> <<>>,
               was |-> FALSE]
    /\ estimated = FALSE
    /\ calls = NoCalls
    /\ seen = None

\* calibrate tool: calibration.compute_calibration(points)
Estimate(points) ==
    LET r == compute_calibration(points, now)
    IN  /\ file' = IF r.raised = "" THEN save_state(r.state) ELSE file
        /\ last' = [op |-> "estimate", args |-> points,
                    raised |-> r.raised, out |-> r.state,
                    was |-> load_state(file).verified]
        /\ estimated' = (estimated \/ r.raised = "")
        /\ UNCHANGED now

\* calibrate_verify tool: calibration.mark_verified(success, notes)
Verify(success, notes) ==
    LET state == mark_verified(file, success, notes, now)
    IN  /\ file' = save_state(state)
        /\ last' = [op |-> "verify",
                    args |-> [success |-> success, notes |-> notes],
                    raised |-> "", out |-> state,
                    was |-> load_state(file).verified]
        /\ UNCHANGED <<now, estimated>>

\* mutant: the evaluation saves the record with verified cleared
Status_unverify ==
    /\ last' = [op |-> "status", args |-> <<>>, raised |-> "",
                out |-> check_calibration(file, now),
                was |-> load_state(file).verified]
    /\ file' = IF file = NoFile THEN file ELSE [file EXCEPT !.verified = FALSE]
    /\ UNCHANGED <<now, estimated>>

\* health_check.check_calibration()
Status ==
    /\ last' = [op |-> "status", args |-> <<>>, raised |-> "",
                out |-> check_calibration(file, now),
                was |-> load_state(file).verified]
    /\ UNCHANGED <<file, now, estimated>>

\* mutant: the conversion writes the state it loaded back to the file
ToLogical_save(x, y) ==
    LET r == physical_to_logical(file, x, y)
    IN  /\ last' = [op |-> "to_logical", args |-> <<x, y>>,
                    raised |-> r.raised, out |-> r.value,
                    was |-> load_state(file).verified]
        /\ file' = save_state(load_state(file))
        /\ UNCHANGED <<now, estimated>>

\* convert_coordinates tool, physical -> logical
ToLogical(x, y) ==
    LET r == physical_to_logical(file, x, y)
    IN  /\ last' = [op |-> "to_logical", args |-> <<x, y>>,
                    raised |-> r.raised, out |-> r.value,
                    was |-> load_state(file).verified]
        /\ UNCHANGED <<file, now, estimated>>

\* convert_coordinates tool, logical -> physical
ToPhysical(x, y) ==
    LET r == logical_to_physical(file, x, y)
    IN  /\ last' = [op |-> "to_physical", args |-> <<x, y>>,
                    raised |-> r.raised, out |-> r.value,
                    was |-> load_state(file).verified]
        /\ UNCHANGED <<file, now, estimated>>

\* the wall clock (datetime.now) advances by seven days
Tick ==
    /\ now \div Week < MaxWeeks
    /\ now' = now + Week
    /\ last' = [op |-> "tick", args |-> <<>>, raised |-> "", out |-> <<>>,
                was |-> load_state(file).verified]
    /\ UNCHANGED <<file, estimated>>

Next ==
    /\ \/ \E points \in PointLists : Estimate(points)
       \/ \E success \in BOOLEAN, notes \in Notes : Verify(success, notes)
       \/ Status
       \/ \E x \in Coords, y \in Coords : ToLogical(x, y)
       \/ \E x \in Coords, y \in Coords : ToPhysical(x, y)
       \/ Tick
    /\ UNCHANGED <<calls, seen>>

Spec == Init /\ [][Next]_vars

(***************************************************************************)
(* The estimator and the converter as functions of their inputs: a fresh   *)
(* installation receives one calibrate call with any list of FitLists, and *)
(* the caller then converts coordinates there and back.                    *)
(***************************************************************************)
\* convert_coordinates logical -> physical, then physical -> logical on the
\* pair the first call returned
RoundTrip(lx, ly) ==
    LET p == logical_to_physical(file, lx, ly)
        l == IF p.raised = ""
             THEN physical_to_logical(file, p.value[1], p.value[2])
             ELSE p
    IN  /\ last' = [op |-> "round_trip", args |-> <<lx, ly>>,
                    raised |-> l.raised, out |-> l.value,
                    was |-> load_state(file).verified]
        /\ UNCHANGED <<file, now, estimated>>

FitNext ==
    /\ \/ \E points \in FitLists : file = NoFile /\ Estimate(points)
       \/ \E lx \in Coords, ly \in Coords : RoundTrip(lx, ly)
    /\ UNCHANGED <<calls, seen>>

SpecFit == Init /\ [][FitNext]_vars

(***************************************************************************)
(* The status evaluator against the clock: one consistent and one          *)
(* inconsistent calibration, verification, and a clock that advances by    *)
(* minutes as well as by weeks.                                            *)
(***************************************************************************)
ClockLists ==
    { << Point(125, 125, 100, 100), Point(125, 125, 100, 100) >>,
      << Point(125, 125, 100, 100), Point(0, 126, 100, 100) >> }

\* the wall clock (datetime.now) advances by one minute
Minute ==
    /\ now % Week < MaxMinutes
    /\ now' = now + 1
    /\ last' = [op |-> "tick", args |-> <<>>, raised |-> "", out |-> <<>>,
                was |-> load_state(file).verified]
    /\ UNCHANGED <<file, estimated>>

ClockNext ==
    /\ \/ (\E points \in ClockLists : Estimate(points)) /\ seen' = None
       \/ (\E success \in BOOLEAN : Verify(success, "")) /\ seen' = None
       \/ Status /\ seen' = [at |-> now, out |-> last'.out,
                             prev |-> IF seen = None THEN None ELSE <<seen.at>>]
       \/ Tick /\ UNCHANGED seen
       \/ Minute /\ UNCHANGED seen
    /\ UNCHANGED calls

SpecClock == Init /\ [][ClockNext]_vars

(***************************************************************************)
(* Several server processes on one state file: a calibrate call, a         *)
(* calibrate_verify call and a reader, each taking the steps of load_state *)
(* and save_state one at a time.                                           *)
(***************************************************************************)
\* compute_calibration up to the open() of save_state
EstimateOpen(points) ==
    LET r == compute_calibration(points, now)
    IN  /\ calls.estimate.pc = "idle"
        /\ file' = IF r.raised = "" THEN open_text(file) ELSE file
        /\ calls' = IF r.raised = ""
                     THEN [calls EXCEPT !.estimate.pc = "write",
                                        !.estimate.state = r.state]
                     ELSE calls
        /\ last' = [op |-> "estimate_open", args |-> points,
                    raised |-> r.raised, out |-> None]
        /\ UNCHANGED <<now, estimated>>

\* compute_calibration from the write of save_state to its return
EstimateWrite ==
    /\ calls.estimate.pc = "write"
    /\ \E text \in write_text(file, save_state(calls.estimate.state)) :
          /\ file' = text
          /\ calls' = [calls EXCEPT
                          !.estimate = Idle,
                          !.verify.between =
                              IF calls.verify.pc = "loaded" /\ text # Garbled
                              THEN text ELSE @]
    /\ last' = [op |-> "estimate_write", args |-> <<>>, raised |-> "",
                out |-> calls.estimate.state]
    /\ estimated' = TRUE
    /\ UNCHANGED now

\* mark_verified up to the open() of save_state: load_state and the three
\* assignments
VerifyLoad(success, notes) ==
    LET r == read_state(file)
    IN  /\ calls.verify.pc = "idle"
        /\ calls' = IF r.raised = ""
                     THEN [calls EXCEPT
                              !.verify.pc = "loaded",
                              !.verify.loaded = r.state,
                              !.verify.state = mark_verified(file, success, notes, now),
                              !.verify.between = None]
                     ELSE calls
        /\ last' = [op |-> "verify_load",
                    args |-> [success |-> success, notes |-> notes],
                    raised |-> r.raised, out |-> r.state]
        /\ UNCHANGED <<file, now, estimated>>

\* mark_verified: the open() of save_state
VerifyOpen ==
    /\ calls.verify.pc = "loaded"
    /\ file' = open_text(file)
    /\ calls' = [calls EXCEPT !.verify.pc = "write"]
    /\ last' = [op |-> "verify_open", args |-> <<>>, raised |-> "", out |-> None]
    /\ UNCHANGED <<now, estimated>>

\* mark_verified from the write of save_state to its return
VerifyWrite ==
    /\ calls.verify.pc = "write"
    /\ \E text \in write_text(file, save_state(calls.verify.state)) :
          file' = text
    /\ calls' = [calls EXCEPT !.verify.pc = "idle"]
    /\ last' = [op |-> "verify_write", args |-> <<>>, raised |-> "",
                out |-> calls.verify.state]
    /\ UNCHANGED <<now, estimated>>

\* load_state in a reader (get_calibration, convert_coordinates, health_check)
Load ==
    LET r == read_state(file)
    IN  /\ last' = [op |-> "load", args |-> <<>>, raised |-> r.raised,
                    out |-> r.state]
        /\ UNCHANGED <<file, now, estimated, calls>>

RaceNext ==
    /\ \/ \E points \in ClockLists : EstimateOpen(points)
       \/ EstimateWrite
       \/ \E success \in BOOLEAN : VerifyLoad(success, "")
       \/ VerifyOpen
       \/ VerifyWrite
       \/ Load
    /\ UNCHANGED seen

SpecRace == Init /\ [][RaceNext]_vars

(***************************************************************************)
(* Claims                                                                  *)
(***************************************************************************)

\* C1: in every reachable state the status returned by check_calibration is
\* 'missing' if calibrated is false; else 'stale' if the age of calibrated_at
\* exceeds 7 days, whatever verified and consistent are; else 'unverified' if
\* verified is false; else 'inconsistent' if consistent is false; else 'ok'.
C1_StatusPriority ==
    LET state == load_state(file)
        expected ==
            IF ~state.calibrated THEN "missing"
            ELSE IF now - state.calibrated_at[1] > STALE_DAYS * MinutesPerDay THEN "stale"
            ELSE IF ~state.verified THEN "unverified"
            ELSE IF ~state.consistent THEN "inconsistent"
            ELSE "ok"
    IN  check_calibration(file, now).status = expected

\* C1 witness: status() has just answered 'stale' for a record older than 7
\* days that is verified and inconsistent
C1_Witness ==
    /\ last.op = "status"
    /\ last.out.status = "stale"
    /\ file # NoFile
    /\ file.calibrated
    /\ file.verified
    /\ ~file.consistent
    /\ now - file.calibrated_at[1] > STALE_DAYS * MinutesPerDay

\* C2: right after a successful estimate the persisted record has
\* calibrated = true and verified = false, and status() evaluated there
\* returns 'unverified' with action_needed = true.
C2_EstimateResetsVerified ==
    (last.op = "estimate" /\ last.raised = "") =>
        /\ file # NoFile
        /\ file.calibrated
        /\ ~file.verified
        /\ check_calibration(file, now).status = "unverified"
        /\ check_calibration(file, now).action_needed

\* C2 witness: a successful estimate over a record that was verified
C2_Witness ==
    /\ last.op = "estimate"
    /\ last.raised = ""
    /\ last.was
    /\ ~file.verified

\* C3: a verify step changes only verified, verification_notes and
\* verified_at: every other key of the loaded record is kept with its value
\* and no other key appears.
C3_VerifyKeys == {"verified", "verification_notes", "verified_at"}

C3_VerifyFrame ==
    [][last'.op = "verify" =>
        LET before == load_state(file)
            after == file'
        IN  /\ after # NoFile
            /\ DOMAIN after = DOMAIN before \cup C3_VerifyKeys
            /\ \A k \in DOMAIN before \ C3_VerifyKeys : after[k] = before[k]]_vars

\* C3 witness: a failed verification of an estimated model has been stored
C3_Witness ==
    /\ last.op = "verify"
    /\ ~last.args.success
    /\ estimated
    /\ file.calibrated
    /\ file.scale_x # None

\* C4: right after verify(success, notes) the persisted verified flag equals
\* success, and after verify(false) status() is not 'ok'.
C4_VerifiedIsSuccess ==
    last.op = "verify" =>
        /\ file # NoFile
        /\ file.verified = last.args.success
        /\ (~last.args.success => check_calibration(file, now).status # "ok")

\* C4 witness: verify(false) on an estimated model whose stored flag was true
C4_Witness ==
    /\ last.op = "verify"
    /\ ~last.args.success
    /\ last.was
    /\ estimated
    /\ ~file.verified

\* C5: an estimate step with fewer than 2 points raises InsufficientSamples
\* and leaves the persisted record, or its absence, exactly as it was.
C5_TooFewPoints ==
    [][(last'.op = "estimate" /\ Len(last'.args) < 2) =>
        /\ last'.raised = InsufficientSamples
        /\ file' = file]_vars

\* C5 witness: a one-point estimate has failed over an existing calibrated record
C5_Witness ==
    /\ last.op = "estimate"
    /\ Len(last.args) = 1
    /\ last.raised = InsufficientSamples
    /\ file # NoFile
    /\ file.calibrated

\* the ratios physical / logical of one axis over the points whose logical
\* coordinate on that axis is nonzero, in the order of the points
RECURSIVE C6_Ratios(_, _)
C6_Ratios(points, axis) ==
    IF points = <<>> THEN <<>>
    ELSE LET p == Head(points)
             physical == IF axis = "x" THEN p.physical_x ELSE p.physical_y
             logical == IF axis = "x" THEN p.logical_x ELSE p.logical_y
         IN  (IF logical # 0 THEN <<Rat(physical, logical)>> ELSE <<>>)
                 \o C6_Ratios(Tail(points), axis)

\* for every point list of a caller: whether each axis has a usable ratio and,
\* if so, the rounded medians of the two axes
C6_Expected ==
    { LET rx == C6_Ratios(points, "x")
          ry == C6_Ratios(points, "y")
          usable == rx # <<>> /\ ry # <<>>
      IN  [points |-> points,
           usable |-> usable,
           scale_x |-> IF usable THEN round_to(median(rx), 6) ELSE None,
           scale_y |-> IF usable THEN round_to(median(ry), 6) ELSE None]
      : points \in PointLists }

\* C6: an estimate step with 2 or more points raises DegenerateInput if and
\* only if some axis has no point with a nonzero logical coordinate, and
\* otherwise succeeds; on the failure the persisted record is unchanged; on
\* success the scale of each axis is the rounded median of the ratios of all
\* the points that are nonzero on that axis, whatever they are on the other.
C6_Degenerate ==
    [][(last'.op = "estimate" /\ Len(last'.args) >= 2) =>
        LET e == CHOOSE e \in C6_Expected : e.points = last'.args
        IN  /\ last'.raised = DegenerateInput <=> ~e.usable
            /\ last'.raised \in {"", DegenerateInput}
            /\ last'.raised # "" => file' = file
            /\ last'.raised = "" =>
                /\ file'.scale_x = e.scale_x
                /\ file'.scale_y = e.scale_y]_vars

\* C6 witness: an estimate has succeeded with a point whose logical x is zero
\* and whose logical y is not
C6_Witness ==
    /\ last.op = "estimate"
    /\ last.raised = ""
    /\ \E i \in 1..Len(last.args) :
          last.args[i].logical_x = 0 /\ last.args[i].logical_y # 0
    /\ file.points = last.args

\* C7: while no estimate has succeeded, physical_to_logical and
\* logical_to_physical raise NotCalibrated and return no coordinates, for
\* every coordinate pair.
C7_NotCalibrated ==
    ~estimated =>
        /\ \A x \in Coords, y \in Coords :
              /\ physical_to_logical(file, x, y) = [raised |-> NotCalibrated, value |-> None]
              /\ logical_to_physical(file, x, y) = [raised |-> NotCalibrated, value |-> None]
        /\ last.op \in {"to_logical", "to_physical"} =>
              (last.raised = NotCalibrated /\ last.out = None)

\* C7 witness: logical_to_physical has raised NotCalibrated on a record that
\* a successful verify call wrote without any estimate
C7_Witness ==
    /\ ~estimated
    /\ file # NoFile
    /\ file.verified
    /\ last.op = "to_physical"
    /\ last.raised = NotCalibrated

\* C8: status() is 'missing' exactly while no estimate has succeeded; with no
\* persisted record load_state returns the empty default; once an estimate
\* has succeeded the record exists with calibrated = true ever after.
C8_MissingIffNeverEstimated ==
    /\ check_calibration(file, now).status = "missing" <=> ~estimated
    /\ last.op = "status" => (last.out.status = "missing" <=> ~estimated)
    /\ estimated => (file # NoFile /\ file.calibrated)
    /\ file = NoFile =>
          LET state == load_state(file)
          IN  /\ state.calibrated = FALSE
              /\ state.scale_x = None /\ state.scale_y = None
              /\ state.offset_x = 0 /\ state.offset_y = 0
              /\ state.points = <<>>
              /\ state.verified = FALSE

\* C8 witness: status() has answered something else than 'missing' for an
\* estimated record that a verify call has rewritten
C8_Witness ==
    /\ estimated
    /\ last.op = "status"
    /\ last.out.status # "missing"
    /\ "verified_at" \in DOMAIN file

\* C9: for every persisted record with calibrated = true and every coordinate
\* pair, physical_to_logical and logical_to_physical return coordinates and
\* raise nothing.
C9_CalibratedConverts ==
    load_state(file).calibrated =>
        \A x \in Coords, y \in Coords :
            /\ physical_to_logical(file, x, y).raised = ""
            /\ logical_to_physical(file, x, y).raised = ""

\* C10: an estimate with 2 or more points whose logical coordinates are all
\* nonzero on both axes succeeds with scale_x > 0 and scale_y > 0.
C10_PositiveScales ==
    (/\ last.op = "estimate"
     /\ Len(last.args) >= 2
     /\ \A i \in 1..Len(last.args) :
           last.args[i].logical_x # 0 /\ last.args[i].logical_y # 0) =>
        /\ last.raised = ""
        /\ RLt(RInt(0), file.scale_x)
        /\ RLt(RInt(0), file.scale_y)

\* C11: for every persisted record with calibrated = true and every integer
\* pair (lx, ly), converting to physical and back gives a pair that differs
\* from (lx, ly) by at most 1 on each axis.
C11_RoundTrip ==
    (last.op = "round_trip" /\ load_state(file).calibrated) =>
        /\ last.raised = ""
        /\ Abs(last.out[1] - last.args[1]) <= 1
        /\ Abs(last.out[2] - last.args[2]) <= 1

\* C11 as amended: for every persisted record with calibrated = true whose
\* scale_x and scale_y are at least 0.5 and every integer pair (lx, ly),
\* converting to physical and back gives a pair that differs from (lx, ly)
\* by at most 1 on each axis.
C11_RoundTripHalf ==
    (/\ last.op = "round_trip"
     /\ load_state(file).calibrated
     /\ RLe(Rat(1, 2), file.scale_x)
     /\ RLe(Rat(1, 2), file.scale_y)) =>
        /\ last.raised = ""
        /\ Abs(last.out[1] - last.args[1]) <= 1
        /\ Abs(last.out[2] - last.args[2]) <= 1

\* C11 witness: a round trip under scales of at least 0.5 has come back one
\* unit away from where it started
C11_Witness ==
    /\ last.op = "round_trip"
    /\ load_state(file).calibrated
    /\ RLe(Rat(1, 2), file.scale_x)
    /\ RLe(Rat(1, 2), file.scale_y)
    /\ last.raised = ""
    /\ Abs(last.out[1] - last.args[1]) = 1

\* the k-th smallest of the ratios r
C18_Kth(r, k) ==
    CHOOSE v \in { r[i] : i \in DOMAIN r } :
        /\ Cardinality({ i \in DOMAIN r : RLt(r[i], v) }) < k
        /\ k <= Cardinality({ i \in DOMAIN r : RLe(r[i], v) })

\* the median of the ratios r: the middle value, or the mean of the two
\* middle values when their count is even
C18_Median(r) ==
    LET n == Len(r)
    IN  IF n % 2 = 1 THEN C18_Kth(r, (n + 1) \div 2)
        ELSE RDiv(RAdd(C18_Kth(r, n \div 2), C18_Kth(r, n \div 2 + 1)), RInt(2))

\* (max ratio - min ratio) / median ratio of the ratios r, whose median is
\* not zero
C12_Spread(r) ==
    RDiv(RSub(C18_Kth(r, Len(r)), C18_Kth(r, 1)), C18_Median(r))

C13_Points == << Point(100, 100, 100, 100), Point(200, 200, 100, 100) >>

\* C13: the estimate of the two points yields scale_x = scale_y = 1.0 and
\* consistent = true.
C13_UnitScale ==
    (last.op = "estimate" /\ last.args = C13_Points) =>
        /\ last.raised = ""
        /\ file.scale_x = RInt(1)
        /\ file.scale_y = RInt(1)
        /\ file.consistent

\* C13 as amended: the estimate of the two points, whose ratios are 1.0 and
\* 2.0 on each axis, yields scale_x = scale_y = 1.5, spread_x = spread_y =
\* 0.6667 and consistent = false.
C13_MidScale ==
    (last.op = "estimate" /\ last.args = C13_Points) =>
        /\ last.raised = ""
        /\ file.scale_x = Rat(3, 2)
        /\ file.scale_y = Rat(3, 2)
        /\ file.spread_x = Rat(6667, 10000)
        /\ file.spread_y = Rat(6667, 10000)
        /\ ~file.consistent

\* C13 witness: the estimate of the two points has been stored
C13_Witness ==
    /\ last.op = "estimate"
    /\ last.args = C13_Points
    /\ last.raised = ""
    /\ file.calibrated

\* whether the ratios r are 3 or more and all but one of them equal v
C18_AllButOne(r, v) ==
    /\ Len(r) >= 3
    /\ Cardinality({ i \in DOMAIN r : r[i] # v }) = 1

\* C18: the scale an estimate stores for an axis is the median of the ratios
\* of that axis, rounded to 6 decimals; when the axis has 3 or more ratios
\* and all but one equal r, the scale is r rounded to 6 decimals.
C18_MedianScale ==
    LET rx == C6_Ratios(last.args, "x")
        ry == C6_Ratios(last.args, "y")
    IN  (last.op = "estimate" /\ last.raised = "") =>
            /\ file.scale_x = round_to(C18_Median(rx), 6)
            /\ file.scale_y = round_to(C18_Median(ry), 6)
            /\ \A i \in DOMAIN rx :
                  C18_AllButOne(rx, rx[i]) => file.scale_x = round_to(rx[i], 6)
            /\ \A i \in DOMAIN ry :
                  C18_AllButOne(ry, ry[i]) => file.scale_y = round_to(ry[i], 6)

\* C18 witness: an estimate of three points, two at ratio 1.0 and one outlier
\* above them, has stored the scale 1.0
C18_Witness ==
    LET rx == C6_Ratios(last.args, "x")
    IN  /\ last.op = "estimate"
        /\ last.raised = ""
        /\ C18_AllButOne(rx, RInt(1))
        /\ \E i \in DOMAIN rx : RLt(RInt(1), rx[i])
        /\ file.scale_x = RInt(1)

\* C15: status() on a record whose points were consistent and whose last
\* verify succeeded 1 minute ago returns 'ok' with action_needed = false.
C15_VerifiedOk ==
    (/\ last.op = "status"
     /\ load_state(file).calibrated
     /\ file.consistent
     /\ "verified_at" \in DOMAIN file
     /\ file.verified
     /\ now - file.verified_at[1] = 1) =>
        /\ last.out.status = "ok"
        /\ ~last.out.action_needed

\* C15 as amended: status() on a record whose points were consistent, whose
\* calibrated_at is at most 7 days old and whose last verify succeeded 1
\* minute ago returns 'ok' with action_needed = false.
C15_FreshVerifiedOk ==
    (/\ last.op = "status"
     /\ load_state(file).calibrated
     /\ file.consistent
     /\ now - file.calibrated_at[1] <= STALE_DAYS * MinutesPerDay
     /\ "verified_at" \in DOMAIN file
     /\ file.verified
     /\ now - file.verified_at[1] = 1) =>
        /\ last.out.status = "ok"
        /\ ~last.out.action_needed

\* C15 witness: status() has answered 'ok' for a consistent record estimated
\* within 7 days and verified one minute before
C15_Witness ==
    /\ last.op = "status"
    /\ load_state(file).calibrated
    /\ file.consistent
    /\ now - file.calibrated_at[1] <= STALE_DAYS * MinutesPerDay
    /\ "verified_at" \in DOMAIN file
    /\ file.verified
    /\ now - file.verified_at[1] = 1
    /\ last.out.status = "ok"
    /\ ~last.out.action_needed

\* C16: two status() calls with no estimate or verify call between them
\* return identical results (status, action_needed, scales and message).
C16_Idempotent ==
    [][(last'.op = "status" /\ seen # None /\ seen' # None) =>
          seen'.out = seen.out]_vars

\* whether the clock readings t1 and t2 give the calibration of the record
\* the same standing: both within 7 days of calibrated_at, or both past it
\* with the same whole number of days
C16_SameAge(t1, t2) ==
    LET state == load_state(file)
        a1 == t1 - state.calibrated_at[1]
        a2 == t2 - state.calibrated_at[1]
        limit == STALE_DAYS * MinutesPerDay
    IN  state.calibrated =>
            \/ a1 <= limit /\ a2 <= limit
            \/ /\ a1 > limit /\ a2 > limit
               /\ a1 \div MinutesPerDay = a2 \div MinutesPerDay

\* C16 as amended: two status() calls with no estimate or verify call between
\* them return identical results if the age of calibrated_at is at most 7
\* days at both calls, or is more than 7 days and the same whole number of
\* days at both calls (or the record is not calibrated).
C16_IdempotentSameAge ==
    [][(/\ last'.op = "status"
        /\ seen # None
        /\ seen' # None
        /\ C16_SameAge(seen.at, now)) =>
          seen'.out = seen.out]_vars

\* C16 witness: status() has answered 'stale' twice for the same record, at
\* two clock readings in the same day, with no estimate or verify between
C16_Witness ==
    /\ last.op = "status"
    /\ seen # None
    /\ seen.prev # None
    /\ seen.prev[1] < seen.at
    /\ C16_SameAge(seen.prev[1], seen.at)
    /\ seen.out.status = "stale"

\* C17: the result of every status evaluation has action_needed = true if and
\* only if its status is not 'ok', and its status is one of the five.
C17_ActionNeeded ==
    LET r == check_calibration(file, now)
    IN  /\ r.status \in {"missing", "stale", "unverified", "inconsistent", "ok"}
        /\ r.action_needed <=> r.status # "ok"
        /\ last.op = "status" =>
              (last.out.action_needed <=> last.out.status # "ok")

\* C17 witness: status() has answered 'inconsistent' with action_needed
C17_Witness ==
    /\ last.op = "status"
    /\ last.out.status = "inconsistent"
    /\ last.out.action_needed

\* C20: a step of status(), toLogical or toPhysical, also one that raises
\* NotCalibrated, leaves the state file as it was.
C20_ReadOnly ==
    [][last'.op \in {"status", "to_logical", "to_physical"} => file' = file]_vars

\* C20 witness: toLogical has raised NotCalibrated and there is still no
\* state file
C20_Witness ==
    /\ last.op = "to_logical"
    /\ last.raised = NotCalibrated
    /\ file = NoFile

\* C14: a load() that runs while other processes save returns a complete
\* record and raises nothing: it never finds the file empty, truncated or
\* partially written.
C14_AtomicSave ==
    last.op = "load" =>
        /\ last.raised = ""
        /\ last.out # None
        /\ file \notin {Truncated, Garbled}

\* the scale, offset and points of a state
C19_Geometry(state) ==
    <<state.scale_x, state.scale_y, state.offset_x, state.offset_y, state.points>>

\* C19: when verify has loaded the record, an estimate has then saved a new
\* model, and verify then saves, the record persisted by that save holds the
\* scale, offset and points of the estimate; and verified = true is stored
\* only alongside a model that the storing verify call has loaded.
C19_VerifyKeepsEstimate ==
    [][/\ (/\ last'.op = "verify_write"
           /\ calls.verify.between # None
           /\ file' # Garbled) =>
              C19_Geometry(file') = C19_Geometry(calls.verify.between)
       /\ (/\ file' # file
           /\ file' \notin {Truncated, Garbled}
           /\ file'.verified) =>
              /\ last'.op = "verify_write"
              /\ C19_Geometry(file') = C19_Geometry(calls.verify.loaded)]_vars

\* C19 as amended: verify saves the scale, offset and points it loaded: when
\* verify has loaded the record, an estimate has then saved a new model, and
\* verify then saves, the record persisted by that save holds the model that
\* verify loaded, not the estimate's; and verified = true is stored only
\* alongside a model that the storing verify call has loaded.
C19_VerifyWritesLoaded ==
    [][/\ (last'.op = "verify_write" /\ file' # Garbled) =>
              C19_Geometry(file') = C19_Geometry(calls.verify.loaded)
       /\ (/\ file' # file
           /\ file' \notin {Truncated, Garbled}
           /\ file'.verified) =>
              /\ last'.op = "verify_write"
              /\ C19_Geometry(file') = C19_Geometry(calls.verify.loaded)]_vars

\* C19 witness: a verify that loaded one model has saved it, verified, over
\* the different model an estimate saved in between
C19_Witness ==
    /\ last.op = "verify_write"
    /\ calls.verify.between # None
    /\ file \notin {Truncated, Garbled}
    /\ file.verified
    /\ C19_Geometry(file) = C19_Geometry(calls.verify.loaded)
    /\ C19_Geometry(file) # C19_Geometry(calls.verify.between)

\* C21: in every record reached through estimate and verify calls,
\* calibrated = true implies that calibrated_at is set; hence a status
\* evaluation never takes the branch in which the time of calibration is
\* missing, and its status is always one of the five.
C21_CalibratedHasTime ==
    LET state == load_state(file)
        statuses == {"missing", "stale", "unverified", "inconsistent", "ok"}
    IN  /\ state.calibrated =>
              /\ "calibrated_at" \in DOMAIN state
              /\ state.calibrated_at # None
        /\ check_calibration(file, now).status # UnboundLocalError
        /\ check_calibration(file, now).status \in statuses
        /\ last.op = "status" =>
              /\ last.raised = ""
              /\ last.out.status \in statuses

\* C21 witness: status() has built the 'stale' message, with its day count,
\* for a calibrated record that a verify call has rewritten
C21_Witness ==
    /\ last.op = "status"
    /\ last.out.status = "stale"
    /\ last.out.message.args # <<>>
    /\ file.calibrated
    /\ file.calibrated_at # None
    /\ "verified_at" \in DOMAIN file

====
